---- MODULE Spec2Model ----
(***************************************************************************)
(* bpmn2dcr: the two-stage compiler from a BPMN process to a DCR graph.    *)
(*                                                                         *)
(*   bpmn_parser.py         BPMNParser: ingest, structural rules R1-R4,    *)
(*                          gateway pairing, loop classification,          *)
(*                          inclusive trace enumeration                    *)
(*   translation_engine.py  TranslationEngine: preprocessing, object       *)
(*                          mapping, auxiliary events, relation mapping,   *)
(*                          deduplication                                  *)
(*   main.py                translate_bpmn_to_dcr: the pipeline            *)
(*                                                                         *)
(* Identifiers are strings, built as the f-strings of the source build     *)
(* them.  Python dicts and lists are sequences in insertion order; Python  *)
(* sets are sets, and a loop over a set of strings runs in an order that   *)
(* depends on the process's hash seed: set_order(seed, ...) below.         *)
(***************************************************************************)
EXTENDS Integers, Sequences, FiniteSets, TLC

\* Python's None (no identifier of an input is this string).
None == "None"

-----------------------------------------------------------------------------
(* Generic helpers for sequences used as Python lists.                     *)

Range(s) == {s[i] : i \in DOMAIN s}

Last(s) == s[Len(s)]

\* list.index(x): the first position of x; 0 stands for ValueError.
index(s, x) ==
    IF x \in Range(s) THEN CHOOSE i \in DOMAIN s : s[i] = x /\ \A j \in 1..(i-1) : s[j] # x
    ELSE 0

RECURSIVE Concat(_)
Concat(ss) == IF ss = <<>> THEN <<>> ELSE Head(ss) \o Concat(Tail(ss))

-----------------------------------------------------------------------------
(* The ingested document: the children of <bpmn:process>.                  *)
(*   tasks, starts, ends, others : element ids in document order           *)
(*   gateways : [id, kind] in document order, kind the element's tag       *)
(*   flows    : [id, src, tgt] in document order                           *)
(*   named    : the ids of the elements that carry a name attribute        *)

Exclusive == "Exclusive"
Parallel == "Parallel"
Inclusive == "Inclusive"
Kinds == {Exclusive, Parallel, Inclusive}

\* BPMNParser.__init__: gateways_xml is filled tag by tag.
gateways_xml(inp) ==
    SelectSeq(inp.gateways, LAMBDA g : g.kind = Exclusive)
    \o SelectSeq(inp.gateways, LAMBDA g : g.kind = Parallel)
    \o SelectSeq(inp.gateways, LAMBDA g : g.kind = Inclusive)

gateway_ids(inp) == {g.id : g \in Range(inp.gateways)}

gateway_kind(inp, id) == (CHOOSE g \in Range(inp.gateways) : g.id = id).kind

end_event_ids(inp) == Range(inp.ends)

\* len(self.elements_xml): every child element of the process, flows included.
elements_count(inp) ==
    Len(inp.tasks) + Len(inp.starts) + Len(inp.ends) + Len(inp.gateways)
    + Len(inp.others) + Len(inp.flows)

\* flows_by_source[n] and flows_by_target[n], in document order.
flows_by_source(inp, n) == SelectSeq(inp.flows, LAMBDA f : f.src = n)
flows_by_target(inp, n) == SelectSeq(inp.flows, LAMBDA f : f.tgt = n)

\* self.graph.get(n, []): the targets of n's outgoing flows, in order.
graph(inp, n) == [i \in DOMAIN flows_by_source(inp, n) |-> flows_by_source(inp, n)[i].tgt]

\* Every identifier the document mentions, as an element or in a flow.
all_ids(inp) ==
    Range(inp.tasks) \cup Range(inp.starts) \cup Range(inp.ends) \cup gateway_ids(inp)
    \cup Range(inp.others) \cup {f.src : f \in Range(inp.flows)}
    \cup {f.tgt : f \in Range(inp.flows)}

\* The keys of flows_by_source in insertion order (first appearance as a source).
RECURSIVE source_keys(_, _)
source_keys(flows, seen) ==
    IF flows = <<>> THEN <<>>
    ELSE IF Head(flows).src \in seen THEN source_keys(Tail(flows), seen)
    ELSE <<Head(flows).src>> \o source_keys(Tail(flows), seen \cup {Head(flows).src})

name_attr(inp, id) == IF id \in inp.named THEN "Name " \o id ELSE None

-----------------------------------------------------------------------------
(* Iteration over a Python set of strings.  The order is fixed within one  *)
(* process and differs between processes (string hashing is seeded per     *)
(* process).  A seed is modelled by the order it induces on the document's *)
(* identifiers: listing order, or its reverse.                             *)

HashSeeds == {"fwd", "rev"}

id_listing(inp) ==
    inp.tasks \o [i \in DOMAIN inp.gateways |-> inp.gateways[i].id]
    \o inp.starts \o inp.ends \o inp.others

RECURSIVE pick_in_order(_, _)
pick_in_order(listing, S) ==
    IF listing = <<>> THEN <<>>
    ELSE IF Head(listing) \in S
         THEN <<Head(listing)>> \o pick_in_order(Tail(listing), S \ {Head(listing)})
         ELSE pick_in_order(Tail(listing), S)

Reverse(s) == [i \in DOMAIN s |-> s[Len(s) + 1 - i]]

RECURSIVE any_order(_)
any_order(S) ==
    IF S = {} THEN <<>> ELSE LET x == CHOOSE y \in S : TRUE IN <<x>> \o any_order(S \ {x})

set_order(seed, inp, S) ==
    LET listed == pick_in_order(id_listing(inp), S)
        fwd == listed \o any_order(S \ Range(listed))
    IN IF seed = "fwd" THEN fwd ELSE Reverse(fwd)

-----------------------------------------------------------------------------
(* BPMNParser._rename_events / element_names.                              *)
(* element_names is a function on the document's identifiers; None where   *)
(* the dict has no entry.                                                  *)

rename_events(inp) ==
    [id \in all_ids(inp) |->
        IF id \in Range(inp.ends)
        THEN "End Event " \o ToString(CHOOSE i \in DOMAIN inp.ends :
                                        inp.ends[i] = id /\ \A j \in (i+1)..Len(inp.ends) : inp.ends[j] # id)
        ELSE IF inp.starts # <<>> /\ id = inp.starts[1] THEN "Start Event"
        ELSE None]

-----------------------------------------------------------------------------
(* BPMNParser._get_all_paths: every cycle-free path from start_node that   *)
(* stops at its first end node.  The caller only asks which paths contain  *)
(* a pair and in which order, so the list is kept as a set.                *)

RECURSIVE paths_from(_, _, _)
paths_from(inp, path, end_nodes) ==
    UNION { IF n \in Range(path) THEN {}
            ELSE IF n \in end_nodes THEN {path \o <<n>>}
            ELSE paths_from(inp, path \o <<n>>, end_nodes)
          : n \in Range(graph(inp, Last(path))) }

get_all_paths(inp, start_node, end_nodes) == paths_from(inp, <<start_node>>, end_nodes)

-----------------------------------------------------------------------------
(* BPMNParser._find_join_for_split: multi-source breadth-first search.     *)
(* st.queue holds (node, origin) entries, st.vfc is visited_from_child,    *)
(* st.term is terminated_branches, st.nacd is nodes_at_current_depth.      *)

\* The first candidate, in list order, covered by origins and terminated branches.
first_covered(cands, vfc, term, children) ==
    LET hits == {i \in DOMAIN cands : (vfc[cands[i]] \cup term) = children}
    IN IF hits = {} THEN None ELSE cands[CHOOSE i \in hits : \A j \in hits : i <= j]

\* Variant: a neighbour is enqueued whether or not this origin has visited it.
RECURSIVE visit_neighbors_unguarded(_, _, _)
visit_neighbors_unguarded(st, nbrs, origin) ==
    IF nbrs = <<>> THEN st
    ELSE LET n == Head(nbrs) IN
         visit_neighbors_unguarded([st EXCEPT !.vfc[n] = @ \cup {origin},
                                              !.queue = Append(@, <<n, origin>>),
                                              !.enqueued = Append(@, <<n, origin>>)],
                                   Tail(nbrs), origin)

\* The inner loop over graph.get(current_node): enqueue each neighbour not yet
\* visited from this origin.
RECURSIVE visit_neighbors(_, _, _)
visit_neighbors(st, nbrs, origin) ==
    IF nbrs = <<>> THEN st
    ELSE LET n == Head(nbrs) IN
         IF origin \in st.vfc[n] THEN visit_neighbors(st, Tail(nbrs), origin)
         ELSE visit_neighbors([st EXCEPT !.vfc[n] = @ \cup {origin},
                                         !.queue = Append(@, <<n, origin>>),
                                         !.enqueued = Append(@, <<n, origin>>)],
                              Tail(nbrs), origin)

next_depth(st) ==
    IF st.nacd = 0 THEN [st EXCEPT !.depth = @ + 1, !.nacd = Len(st.queue)] ELSE st

\* A return of the search: the value returned, with the history of the call
\* (every entry the queue ever held, in order, and the depth counter).
returns(st, value) == [found |-> value, enqueued |-> st.enqueued, depth |-> st.depth]

RECURSIVE find_join_loop(_, _, _, _)
find_join_loop(inp, st, potential_joins, children) ==
    IF st.queue = <<>> \/ ~(st.depth < elements_count(inp)) THEN returns(st, None)
    ELSE LET current_node == Head(st.queue)[1]
             origin_child == Head(st.queue)[2]
             popped == [st EXCEPT !.queue = Tail(@), !.nacd = @ - 1]
         IN IF current_node \in end_event_ids(inp)
            THEN LET t == [popped EXCEPT !.term = @ \cup {origin_child}]
                     hit == first_covered(potential_joins, t.vfc, t.term, children)
                 IN IF hit # None THEN returns(t, hit)
                    ELSE find_join_loop(inp, next_depth(t), potential_joins, children)
            ELSE IF current_node \in Range(potential_joins)
                    /\ (popped.vfc[current_node] \cup popped.term) = children
                 THEN returns(popped, current_node)
                 ELSE find_join_loop(inp,
                          next_depth(visit_neighbors(popped, graph(inp, current_node), origin_child)),
                          potential_joins, children)

\* One call of _find_join_for_split, with its history.
find_join_call(inp, split_id, potential_joins) ==
    LET children == graph(inp, split_id)
        queue == [i \in DOMAIN children |-> <<children[i], children[i]>>]
    IN IF Len(children) < 2
       THEN [found |-> None, enqueued |-> <<>>, depth |-> 0]
       ELSE find_join_loop(inp,
               [queue |-> queue,
                enqueued |-> queue,
                vfc   |-> [n \in all_ids(inp) |-> IF n \in Range(children) THEN {n} ELSE {}],
                term  |-> {},
                depth |-> 0,
                nacd  |-> Len(children)],
               potential_joins, Range(children))

find_join_for_split(inp, split_id, potential_joins) ==
    find_join_call(inp, split_id, potential_joins).found

-----------------------------------------------------------------------------
(* BPMNParser._trace_inclusive_branches.                                   *)

\* The inner breadth-first search: everything dequeued when starting from the
\* queue with the given visited set (the order of dequeuing is not observed).
RECURSIVE bfs_reach(_, _, _)
bfs_reach(inp, frontier, visited) ==
    IF frontier = {} THEN {}
    ELSE LET new == UNION {Range(graph(inp, n)) : n \in frontier} \ visited
         IN frontier \cup bfs_reach(inp, new, visited \cup new)

reachable_end_nodes(inp, start_node, split_id, join_id) ==
    bfs_reach(inp, {start_node}, {start_node, split_id, join_id})
    \cap {f.src : f \in Range(flows_by_target(inp, join_id))}

\* One start node's traces, numbered from trace_counter in the set's iteration order.
traces_of_start(start_node, ends_in_order, trace_counter) ==
    [i \in DOMAIN ends_in_order |->
        [trace_id |-> trace_counter + i - 1,
         start_object_id |-> start_node,
         end_object_id |-> ends_in_order[i]]]

\* Variant: the traces are returned after the first start node.
trace_starts_first_only(seed, inp, start_nodes, split_id, join_id, traces) ==
    IF start_nodes = <<>> THEN traces
    ELSE traces \o traces_of_start(Head(start_nodes),
                      set_order(seed, inp,
                          reachable_end_nodes(inp, Head(start_nodes), split_id, join_id)),
                      Len(traces) + 1)

RECURSIVE trace_starts(_, _, _, _, _, _)
trace_starts(seed, inp, start_nodes, split_id, join_id, traces) ==
    IF start_nodes = <<>> THEN traces
    ELSE trace_starts(seed, inp, Tail(start_nodes), split_id, join_id,
            traces \o traces_of_start(Head(start_nodes),
                        set_order(seed, inp,
                            reachable_end_nodes(inp, Head(start_nodes), split_id, join_id)),
                        Len(traces) + 1))

\* Variant: no trace is recorded.
trace_inclusive_branches_none(seed, inp, split_id, join_id) == <<>>

trace_inclusive_branches(seed, inp, split_id, join_id) ==
    IF graph(inp, split_id) = <<>> \/ flows_by_target(inp, join_id) = <<>> THEN <<>>
    ELSE trace_starts(seed, inp, graph(inp, split_id), split_id, join_id, <<>>)

-----------------------------------------------------------------------------
(* BPMNParser._pair_and_rename_gateways.                                   *)

is_split_shape(inp, id) ==
    Len(flows_by_target(inp, id)) = 1 /\ Len(flows_by_source(inp, id)) > 1

is_join_shape(inp, id) ==
    Len(flows_by_target(inp, id)) > 1 /\ Len(flows_by_source(inp, id)) = 1

\* all_split_ids: the gateways of a known kind that are Split-shaped.
all_split_ids(inp) == {id \in gateway_ids(inp) : is_split_shape(inp, id)}

\* joins_by_type[kind], in gateways_xml order.
joins_by_type(inp, kind) ==
    LET js == SelectSeq(gateways_xml(inp),
                        LAMBDA g : g.kind = kind /\ is_join_shape(inp, g.id))
    IN [i \in DOMAIN js |-> js[i].id]

\* The loop test of an exclusive pair over all_paths.
classify_loop(all_paths, split_id, match) ==
    LET both == {p \in all_paths : split_id \in Range(p) /\ match \in Range(p)}
    IN both # {} /\ \A p \in both : ~(index(p, split_id) < index(p, match))

\* Variant: the loop test is applied to pairs of every kind.
is_loop_of_any_kind(inp, all_paths, kind, split_id, match) ==
    classify_loop(all_paths, split_id, match)

is_loop_of(inp, all_paths, kind, split_id, match) ==
    kind = Exclusive /\ classify_loop(all_paths, split_id, match)

split_name(base_name, name_count, is_loop, loop_counter) ==
    IF is_loop
    THEN base_name \o " " \o ToString(name_count) \o " -- Split (Loop "
         \o ToString(loop_counter) \o " Out)"
    ELSE base_name \o " " \o ToString(name_count) \o " -- Split"

\* Variant: the join of a loop pair is named like the join of a plain pair.
join_name_without_loop(base_name, name_count, is_loop, loop_counter) ==
    base_name \o " " \o ToString(name_count) \o " -- Join"

join_name(base_name, name_count, is_loop, loop_counter) ==
    IF is_loop
    THEN base_name \o " " \o ToString(name_count) \o " -- Join (Loop "
         \o ToString(loop_counter) \o " In)"
    ELSE base_name \o " " \o ToString(name_count) \o " -- Join"

\* The body of "if match:" for one split: the pair is recorded and named.
record_pair(seed, inp, ps, all_paths, split_id, match) ==
    LET kind == gateway_kind(inp, split_id)
        is_loop == is_loop_of(inp, all_paths, kind, split_id, match)
        name_count == 1 + Cardinality({i \in DOMAIN ps.pairs : ps.pairs[i].gateway_type = kind})
        loop_counter == 1 + Cardinality({i \in DOMAIN ps.pairs : ps.pairs[i].is_loop})
        traces == IF kind = Inclusive
                  THEN trace_inclusive_branches(seed, inp, split_id, match)
                  ELSE <<>>
    IN [ps EXCEPT
          !.paired = @ \cup {split_id, match},
          !.names = [@ EXCEPT ![match] = join_name(kind, name_count, is_loop, loop_counter),
                              ![split_id] = split_name(kind, name_count, is_loop, loop_counter)],
          !.pairs = Append(@, [pair_id |-> Len(ps.pairs) + 1,
                               gateway_type |-> kind,
                               split_gateway_id |-> split_id,
                               join_gateway_id |-> match,
                               is_loop |-> is_loop,
                               inclusive_traces |-> traces])]

\* Variant: the candidate joins are not filtered by the split's kind.
potential_joins_of_any_kind(inp, ps, split_id) ==
    SelectSeq([i \in DOMAIN gateways_xml(inp) |-> gateways_xml(inp)[i].id],
              LAMBDA j : is_join_shape(inp, j) /\ j \notin ps.paired)

\* potential_joins: the joins of the split's kind that are not paired yet.
potential_joins_of(inp, ps, split_id) ==
    SelectSeq(joins_by_type(inp, gateway_kind(inp, split_id)), LAMBDA j : j \notin ps.paired)

\* ps.calls keeps, for every call of _find_join_for_split, the split and the
\* history of the call.
try_pair(seed, inp, ps, all_paths, current_id) ==
    IF current_id \in all_split_ids(inp) /\ current_id \notin ps.paired
    THEN LET potential_joins == potential_joins_of(inp, ps, current_id)
             call == find_join_call(inp, current_id, potential_joins)
             match == find_join_for_split(inp, current_id, potential_joins)
             called == [ps EXCEPT !.calls = Append(@, [split_id |-> current_id,
                                                       enqueued |-> call.enqueued,
                                                       depth |-> call.depth,
                                                       found |-> call.found])]
         IN IF match # None THEN record_pair(seed, inp, called, all_paths, current_id, match)
            ELSE called
    ELSE ps

RECURSIVE enqueue_unvisited(_, _)
enqueue_unvisited(ps, nbrs) ==
    IF nbrs = <<>> THEN ps
    ELSE IF Head(nbrs) \in ps.visited THEN enqueue_unvisited(ps, Tail(nbrs))
    ELSE enqueue_unvisited([ps EXCEPT !.visited = @ \cup {Head(nbrs)},
                                      !.queue = Append(@, Head(nbrs))], Tail(nbrs))

\* The outer breadth-first loop from the start event; ps.dequeued keeps the
\* objects in the order the loop takes them from the queue.
RECURSIVE pairing_loop(_, _, _, _)
pairing_loop(seed, inp, ps, all_paths) ==
    IF ps.queue = <<>> THEN ps
    ELSE LET current_id == Head(ps.queue)
             popped == [ps EXCEPT !.queue = Tail(@), !.dequeued = Append(@, current_id)]
         IN pairing_loop(seed, inp,
                enqueue_unvisited(try_pair(seed, inp, popped, all_paths, current_id),
                                  graph(inp, current_id)),
                all_paths)

Err(rule, id, what, n) == [rule |-> rule, id |-> id, what |-> what, n |-> n]

\* Variant: only one unpaired gateway is reported.
rule4_errors_first_only(seed, inp, paired) ==
    LET unpaired == set_order(seed, inp, gateway_ids(inp) \ paired)
    IN IF unpaired = <<>> THEN <<>> ELSE <<Err("R4", unpaired[1], "unpaired", 0)>>

\* The Rule 4 errors, one per unpaired gateway, in the set's iteration order.
rule4_errors(seed, inp, paired) ==
    LET unpaired == set_order(seed, inp, gateway_ids(inp) \ paired)
    IN [i \in DOMAIN unpaired |-> Err("R4", unpaired[i], "unpaired", 0)]

\* Returns [errors, pairs, names]: the pairing errors, gateway_pairs_data and
\* element_names after the pass, with the history of the pass (dequeued, calls).
pair_and_rename_gateways(seed, inp, names) ==
    IF inp.starts = <<>>
    THEN [errors |-> <<Err("NoStart", "", "no start event for traversal", 0)>>,
          pairs |-> <<>>, names |-> names, dequeued |-> <<>>, calls |-> <<>>]
    ELSE LET start_node_id == inp.starts[1]
             all_paths == get_all_paths(inp, start_node_id, end_event_ids(inp))
             ps == pairing_loop(seed, inp,
                       [queue |-> <<start_node_id>>, visited |-> {start_node_id},
                        paired |-> {}, pairs |-> <<>>, names |-> names,
                        dequeued |-> <<>>, calls |-> <<>>],
                       all_paths)
         IN [errors |-> rule4_errors(seed, inp, ps.paired),
             pairs |-> ps.pairs, names |-> ps.names,
             dequeued |-> ps.dequeued, calls |-> ps.calls]

-----------------------------------------------------------------------------
(* The structural rules R1-R3.                                             *)

check_start_end_events(inp) ==
    (IF Len(inp.starts) # 1
     THEN <<Err("R1", "", "start events", Len(inp.starts))>> ELSE <<>>)
    \o (IF Len(inp.ends) < 1
        THEN <<Err("R1", "", "end events", 0)>> ELSE <<>>)

\* Variant: only the incoming count of a task is checked.
task_errors_incoming_only(inp, task_id) ==
    IF Len(flows_by_target(inp, task_id)) # 1
    THEN <<Err("R2", task_id, "incoming", Len(flows_by_target(inp, task_id)))>> ELSE <<>>


task_errors(inp, task_id) ==
    (IF Len(flows_by_target(inp, task_id)) # 1
     THEN <<Err("R2", task_id, "incoming", Len(flows_by_target(inp, task_id)))>> ELSE <<>>)
    \o (IF Len(flows_by_source(inp, task_id)) # 1
        THEN <<Err("R2", task_id, "outgoing", Len(flows_by_source(inp, task_id)))>> ELSE <<>>)

check_task_connectivity(inp) ==
    Concat([i \in DOMAIN inp.tasks |-> task_errors(inp, inp.tasks[i])])

gateway_errors(inp, gw_id) ==
    IF ~is_split_shape(inp, gw_id) /\ ~is_join_shape(inp, gw_id)
    THEN <<Err("R3", gw_id, "structure", 0)>> ELSE <<>>

check_gateway_structure(inp) ==
    Concat([i \in DOMAIN gateways_xml(inp) |-> gateway_errors(inp, gateways_xml(inp)[i].id)])

-----------------------------------------------------------------------------
(* BPMNParser._build_structured_process_object.                            *)

NoProcess == [objects |-> <<>>, sequence_flows |-> <<>>, gateway_pairs |-> <<>>]

flow_ids(flows) == [i \in DOMAIN flows |-> flows[i].id]

\* sequence_flows: filled source by source, in flows_by_source's key order.
build_sequence_flows(inp) ==
    LET keys == source_keys(inp.flows, {})
    IN Concat([i \in DOMAIN keys |-> flows_by_source(inp, keys[i])])

BPMNObject(id, element_type, name, system_name, event_type, gateway_type, gateway_function, incoming, outgoing) ==
    [id |-> id, element_type |-> element_type, name |-> name, system_name |-> system_name,
     event_type |-> event_type, gateway_type |-> gateway_type,
     gateway_function |-> gateway_function,
     incoming_flows |-> incoming, outgoing_flows |-> outgoing]

system_name_of(inp, names, id) ==
    IF names[id] # None THEN names[id]
    ELSE IF name_attr(inp, id) # None THEN name_attr(inp, id) ELSE id

build_object(inp, names, id, element_type, event_type, gateway_type) ==
    BPMNObject(id, element_type, name_attr(inp, id), system_name_of(inp, names, id),
               event_type, gateway_type,
               IF element_type # "Gateway" THEN None
               ELSE IF is_split_shape(inp, id) THEN "Split" ELSE "Join",
               flow_ids(flows_by_target(inp, id)), flow_ids(flows_by_source(inp, id)))

\* all_xml_elements: tasks, gateways, start events, end events, in that order.
build_objects(inp, names) ==
    [i \in DOMAIN inp.tasks |-> build_object(inp, names, inp.tasks[i], "Task", None, None)]
    \o [i \in DOMAIN gateways_xml(inp) |->
          build_object(inp, names, gateways_xml(inp)[i].id, "Gateway", None,
                       gateways_xml(inp)[i].kind)]
    \o [i \in DOMAIN inp.starts |->
          build_object(inp, names, inp.starts[i], "Event", "StartEvent", None)]
    \o [i \in DOMAIN inp.ends |->
          build_object(inp, names, inp.ends[i], "Event", "EndEvent", None)]

build_structured_process_object(inp, names, pairs) ==
    [objects |-> build_objects(inp, names),
     sequence_flows |-> build_sequence_flows(inp),
     gateway_pairs |-> pairs]

-----------------------------------------------------------------------------
(* BPMNParser.parse_and_validate: returns [has_process, process, errors].  *)

all_errors_of(inp, pairing) ==
    check_start_end_events(inp) \o check_task_connectivity(inp)
    \o check_gateway_structure(inp) \o pairing.errors

\* Variant: the pairing errors are reported but do not stop the build of the process.
parse_and_validate_pairing_ignored(seed, inp) ==
    LET pairing == pair_and_rename_gateways(seed, inp, rename_events(inp))
        validation_errors == check_start_end_events(inp) \o check_task_connectivity(inp)
                             \o check_gateway_structure(inp)
    IN IF validation_errors # <<>>
       THEN [has_process |-> FALSE, process |-> NoProcess,
             errors |-> validation_errors \o pairing.errors]
       ELSE [has_process |-> TRUE,
             process |-> build_structured_process_object(inp, pairing.names, pairing.pairs),
             errors |-> pairing.errors]


parse_and_validate(seed, inp) ==
    LET pairing == pair_and_rename_gateways(seed, inp, rename_events(inp))
        all_errors == all_errors_of(inp, pairing)
    IN IF all_errors # <<>>
       THEN [has_process |-> FALSE, process |-> NoProcess, errors |-> all_errors]
       ELSE [has_process |-> TRUE,
             process |-> build_structured_process_object(inp, pairing.names, pairing.pairs),
             errors |-> <<>>]

-----------------------------------------------------------------------------
(* Python dicts keyed by an id: sequences of records in insertion order.   *)
(* key(r) is r.id for objects, flows and events and r.key elsewhere.       *)

has_id(d, k) == \E i \in DOMAIN d : d[i].id = k

get_id(d, k) == d[CHOOSE i \in DOMAIN d : d[i].id = k]

\* d[rec.id] = rec: replaces the entry in place, or appends a new one.
put_id(d, rec) ==
    IF has_id(d, rec.id)
    THEN [i \in DOMAIN d |-> IF d[i].id = rec.id THEN rec ELSE d[i]]
    ELSE Append(d, rec)

\* next((... for ... in d if ...), None) over a sequence: the first of the
\* matching positions, 0 when there is none.
first_index(hits) ==
    IF hits = {} THEN 0 ELSE CHOOSE i \in hits : \A j \in hits : i <= j

\* list.remove(x): drops the first occurrence.
remove_first(s, x) ==
    LET i == index(s, x)
    IN IF i = 0 THEN s ELSE SubSeq(s, 1, i - 1) \o SubSeq(s, i + 1, Len(s))

-----------------------------------------------------------------------------
(* TranslationEngine._preprocess_bpmn_model.                               *)

trigger_id_of(pair_id, trigger_counter) ==
    "or_" \o ToString(pair_id) \o "_trigger_" \o ToString(trigger_counter)

trigger_name_of(pair_id, trigger_counter) ==
    "OR " \o ToString(pair_id) \o " Trigger " \o ToString(trigger_counter)

new_flow_id_of(trigger_id, task_id) == "flow_" \o trigger_id \o "_" \o task_id

\* Variant: every trace that starts at a task gets a trigger.
needs_trigger_any_task(proc, trace) ==
    /\ has_id(proc.objects, trace.start_object_id)
    /\ get_id(proc.objects, trace.start_object_id).element_type = "Task"

\* Whether the trace is a single-task branch that gets a trigger.
needs_trigger(proc, trace) ==
    /\ has_id(proc.objects, trace.start_object_id)
    /\ trace.start_object_id = trace.end_object_id
    /\ get_id(proc.objects, trace.start_object_id).element_type = "Task"

\* The body of the loop for trace number t of pair number p, which needs a trigger.
insert_trigger(proc, p, t, trigger_counter) ==
    LET pair == proc.gateway_pairs[p]
        trace == pair.inclusive_traces[t]
        task_obj == get_id(proc.objects, trace.start_object_id)
        trigger_id == trigger_id_of(pair.pair_id, trigger_counter)
        trigger_name == trigger_name_of(pair.pair_id, trigger_counter)
        fi == first_index({i \in DOMAIN proc.sequence_flows :
                             /\ proc.sequence_flows[i].src = pair.split_gateway_id
                             /\ proc.sequence_flows[i].tgt = task_obj.id})
        flow_to_task_id == IF fi = 0 THEN None ELSE proc.sequence_flows[fi].id
        new_flow_id == new_flow_id_of(trigger_id, task_obj.id)
        trigger_obj == BPMNObject(trigger_id, "Task", trigger_name, trigger_name,
                                  None, None, None,
                                  IF fi = 0 THEN <<>> ELSE <<flow_to_task_id>>,
                                  <<new_flow_id>>)
        task1 == [task_obj EXCEPT !.incoming_flows =
                     Append(IF fi = 0 THEN @ ELSE remove_first(@, flow_to_task_id), new_flow_id)]
        objects2 == put_id(put_id(proc.objects, trigger_obj), task1)
        flows1 == IF fi = 0 THEN proc.sequence_flows
                  ELSE put_id(proc.sequence_flows,
                              [id |-> flow_to_task_id, src |-> pair.split_gateway_id,
                               tgt |-> trigger_id])
        flows2 == put_id(flows1, [id |-> new_flow_id, src |-> trigger_id, tgt |-> task_obj.id])
    IN [proc EXCEPT !.objects = objects2,
                    !.sequence_flows = flows2,
                    !.gateway_pairs[p].inclusive_traces[t].start_object_id = trigger_id]

\* The two nested loops, pair by pair and trace by trace, with trigger_counter
\* running across all pairs.
RECURSIVE preprocess_from(_, _, _, _)
preprocess_from(proc, p, t, trigger_counter) ==
    IF p > Len(proc.gateway_pairs) THEN proc
    ELSE IF proc.gateway_pairs[p].gateway_type # Inclusive
            \/ t > Len(proc.gateway_pairs[p].inclusive_traces)
         THEN preprocess_from(proc, p + 1, 1, trigger_counter)
         ELSE IF needs_trigger(proc, proc.gateway_pairs[p].inclusive_traces[t])
              THEN preprocess_from(insert_trigger(proc, p, t, trigger_counter),
                                   p, t + 1, trigger_counter + 1)
              ELSE preprocess_from(proc, p, t + 1, trigger_counter)

preprocess_bpmn_model(proc) == preprocess_from(proc, 1, 1, 1)

-----------------------------------------------------------------------------
(* The DCR model and the engine's own state.                               *)
(*   eng.dcr_graph                 events, relations, initial_marking,     *)
(*                                 labelling_function                      *)
(*   eng.auxiliary_event_counters  [AND, OR]                               *)
(*   eng.or_join_flow_map          flow id -> (aux_event_id, trace start)  *)

DCRRelation(source_id, target_id, relation_type) ==
    [source_id |-> source_id, target_id |-> target_id, relation_type |-> relation_type]

EmptyGraph ==
    [events |-> <<>>, relations |-> <<>>, initial_marking |-> <<>>,
     labelling_function |-> <<>>]

\* TranslationEngine.__init__
NewEngine ==
    [dcr_graph |-> EmptyGraph,
     auxiliary_event_counters |-> [AND |-> 0, OR |-> 0],
     or_join_flow_map |-> <<>>]

\* An event with its marking and label is stored, and its self-exclusion appended.
add_event(g, event_id, label, initial_marking) ==
    [events |-> put_id(g.events, [id |-> event_id, label |-> label]),
     initial_marking |-> put_id(g.initial_marking, [id |-> event_id, marking |-> initial_marking]),
     labelling_function |-> put_id(g.labelling_function, [id |-> event_id, label |-> label]),
     relations |-> Append(g.relations, DCRRelation(event_id, event_id, "exclude"))]

object_marking(bpmn_obj) ==
    IF bpmn_obj.event_type = "StartEvent" THEN <<FALSE, TRUE, TRUE>>
    ELSE <<FALSE, FALSE, FALSE>>

\* TranslationEngine._perform_object_mapping
RECURSIVE map_objects(_, _)
map_objects(g, objects) ==
    IF objects = <<>> THEN g
    ELSE map_objects(add_event(g, Head(objects).id, Head(objects).system_name,
                               object_marking(Head(objects))),
                     Tail(objects))

perform_object_mapping(eng, proc) ==
    [eng EXCEPT !.dcr_graph = map_objects(@, proc.objects)]

\* Variant: auxiliary events start like any other event.
aux_marking_all_false(event_type) == <<FALSE, FALSE, FALSE>>


aux_marking(event_type) ==
    IF event_type = "AND" THEN <<FALSE, TRUE, FALSE>> ELSE <<FALSE, FALSE, FALSE>>

aux_event_id(counter, event_type, unique_ref) ==
    "s_" \o ToString(counter) \o "_" \o event_type \o "_" \o unique_ref

\* Variant: the auxiliary event is stored without its self-exclusion.
create_auxiliary_event_no_self_exclude(eng, event_type, unique_ref) ==
    LET counter == eng.auxiliary_event_counters[event_type] + 1
        event_id == aux_event_id(counter, event_type, unique_ref)
        label == event_type \o " State " \o ToString(counter)
    IN [eng EXCEPT
          !.auxiliary_event_counters[event_type] = counter,
          !.dcr_graph = IF has_id(@.events, event_id) THEN @
                        ELSE [add_event(@, event_id, label, aux_marking(event_type))
                                EXCEPT !.relations = eng.dcr_graph.relations]]

\* TranslationEngine._create_auxiliary_event: the engine after the call; the id
\* returned is aux_event_id(<the counter after the call>, event_type, unique_ref).
create_auxiliary_event(eng, event_type, unique_ref) ==
    LET counter == eng.auxiliary_event_counters[event_type] + 1
        event_id == aux_event_id(counter, event_type, unique_ref)
        label == event_type \o " State " \o ToString(counter)
    IN [eng EXCEPT
          !.auxiliary_event_counters[event_type] = counter,
          !.dcr_graph = IF has_id(@.events, event_id) THEN @
                        ELSE add_event(@, event_id, label, aux_marking(event_type))]

\* TranslationEngine._prepare_dcr_mappings
prepare_trace(eng, proc, pair, trace) ==
    LET fi == first_index({i \in DOMAIN proc.sequence_flows :
                             /\ proc.sequence_flows[i].src = trace.end_object_id
                             /\ proc.sequence_flows[i].tgt = pair.join_gateway_id})
        eng1 == create_auxiliary_event(eng, "OR", ToString(trace.trace_id))
    IN IF fi = 0 THEN eng
       ELSE [eng1 EXCEPT !.or_join_flow_map =
               put_id(@, [id |-> proc.sequence_flows[fi].id,
                          aux_event_id |-> aux_event_id(eng1.auxiliary_event_counters["OR"],
                                                        "OR", ToString(trace.trace_id)),
                          trace_start_id |-> trace.start_object_id])]

RECURSIVE prepare_from(_, _, _, _)
prepare_from(eng, proc, p, t) ==
    IF p > Len(proc.gateway_pairs) THEN eng
    ELSE IF proc.gateway_pairs[p].gateway_type # Inclusive
            \/ t > Len(proc.gateway_pairs[p].inclusive_traces)
         THEN prepare_from(eng, proc, p + 1, 1)
         ELSE prepare_from(prepare_trace(eng, proc, proc.gateway_pairs[p],
                                         proc.gateway_pairs[p].inclusive_traces[t]),
                           proc, p, t + 1)

prepare_dcr_mappings(eng, proc) == prepare_from(eng, proc, 1, 1)

-----------------------------------------------------------------------------
(* TranslationEngine._perform_relation_mapping and the schemas it uses.    *)

add_relations(eng, rels) == [eng EXCEPT !.dcr_graph.relations = @ \o rels]

basic_relations(source_id, target_id) ==
    <<DCRRelation(source_id, target_id, "response"),
      DCRRelation(source_id, target_id, "include")>>

map_basic_relation(eng, source_id, target_id) ==
    add_relations(eng, basic_relations(source_id, target_id))

\* The targets of the split's outgoing flows, in outgoing_flows order.
all_targets_of(proc, source_obj) ==
    [i \in DOMAIN source_obj.outgoing_flows |->
        get_id(proc.sequence_flows, source_obj.outgoing_flows[i]).tgt]

sibling_excludes(target_id, all_targets) ==
    Concat([i \in DOMAIN all_targets |->
              IF target_id # all_targets[i]
              THEN <<DCRRelation(target_id, all_targets[i], "exclude"),
                     DCRRelation(all_targets[i], target_id, "exclude")>>
              ELSE <<>>])

\* Variant: the branches of an exclusive split do not exclude each other.
map_xor_gateway_relation_basic_only(eng, proc, source_id, target_id) ==
    map_basic_relation(eng, source_id, target_id)

map_xor_gateway_relation(eng, proc, source_id, target_id) ==
    LET source_obj == get_id(proc.objects, source_id) IN
    IF source_obj.gateway_function = "Split"
    THEN add_relations(map_basic_relation(eng, source_id, target_id),
                       sibling_excludes(target_id, all_targets_of(proc, source_obj)))
    ELSE map_basic_relation(eng, source_id, target_id)

\* next(p for p in gateway_pairs.values() if p.split_gateway_id == source_id)
pair_of_split(proc, source_id) ==
    proc.gateway_pairs[first_index({i \in DOMAIN proc.gateway_pairs :
                                    proc.gateway_pairs[i].split_gateway_id = source_id})]

and_join_relations(source_id, aux_id, target_id) ==
    <<DCRRelation(source_id, aux_id, "exclude"),
      DCRRelation(aux_id, target_id, "condition"),
      DCRRelation(source_id, target_id, "include")>>

map_and_gateway_relation(eng, proc, source_id, target_id) ==
    LET source_obj == get_id(proc.objects, source_id) IN
    IF source_obj.gateway_function = "Split"
    THEN add_relations(map_basic_relation(eng, source_id, target_id),
            <<DCRRelation(source_id, pair_of_split(proc, source_id).join_gateway_id,
                          "response")>>)
    ELSE LET eng1 == create_auxiliary_event(eng, "AND", source_id)
             aux_id == aux_event_id(eng1.auxiliary_event_counters["AND"], "AND", source_id)
         IN add_relations(eng1, and_join_relations(source_id, aux_id, target_id))

or_split_relations(source_id, join_id, target_id) ==
    <<DCRRelation(source_id, join_id, "response"),
      DCRRelation(join_id, target_id, "exclude")>>

\* Variant: the trace start does not include the OR-State event.
or_join_relations_without_start_include(source_id, aux_id, target_id, trace_start_id) ==
    <<DCRRelation(source_id, aux_id, "exclude"),
      DCRRelation(aux_id, target_id, "condition"),
      DCRRelation(source_id, target_id, "include")>>

or_join_relations(source_id, aux_id, target_id, trace_start_id) ==
    <<DCRRelation(source_id, aux_id, "exclude"),
      DCRRelation(aux_id, target_id, "condition"),
      DCRRelation(source_id, target_id, "include"),
      DCRRelation(trace_start_id, aux_id, "include")>>

map_or_gateway_relation(eng, proc, source_id, target_id, flow_id) ==
    LET source_obj == get_id(proc.objects, source_id) IN
    IF source_obj.gateway_function = "Split"
    THEN add_relations(map_basic_relation(eng, source_id, target_id),
            or_split_relations(source_id, pair_of_split(proc, source_id).join_gateway_id,
                               target_id))
    ELSE IF has_id(eng.or_join_flow_map, flow_id)
         THEN LET e == get_id(eng.or_join_flow_map, flow_id)
              IN add_relations(eng, or_join_relations(source_id, e.aux_event_id, target_id,
                                                      e.trace_start_id))
         ELSE eng

split_ids(proc) == {proc.gateway_pairs[i].split_gateway_id : i \in DOMAIN proc.gateway_pairs}
join_ids(proc) == {proc.gateway_pairs[i].join_gateway_id : i \in DOMAIN proc.gateway_pairs}

\* The loop body for one sequence flow.
map_flow(eng, proc, flow) ==
    IF ~has_id(proc.objects, flow.src) THEN eng
    ELSE IF ~(flow.src \in split_ids(proc) \/ flow.tgt \in join_ids(proc))
         THEN map_basic_relation(eng, flow.src, flow.tgt)
         ELSE LET gateway_obj == IF flow.src \in split_ids(proc)
                                 THEN get_id(proc.objects, flow.src)
                                 ELSE get_id(proc.objects, flow.tgt)
              IN IF gateway_obj.gateway_type = Exclusive
                 THEN map_xor_gateway_relation(eng, proc, flow.src, flow.tgt)
                 ELSE IF gateway_obj.gateway_type = Parallel
                 THEN map_and_gateway_relation(eng, proc, flow.src, flow.tgt)
                 ELSE IF gateway_obj.gateway_type = Inclusive
                 THEN map_or_gateway_relation(eng, proc, flow.src, flow.tgt, flow.id)
                 ELSE eng

RECURSIVE map_flows(_, _, _)
map_flows(eng, proc, flows) ==
    IF flows = <<>> THEN eng
    ELSE map_flows(map_flow(eng, proc, Head(flows)), proc, Tail(flows))

perform_relation_mapping(eng, proc) == map_flows(eng, proc, proc.sequence_flows)

-----------------------------------------------------------------------------
(* translate's last step: relations = list(set(relations)).  The list holds *)
(* each distinct relation once, in the set's iteration order.              *)

RECURSIVE first_occurrences(_, _)
first_occurrences(rels, seen) ==
    IF rels = <<>> THEN <<>>
    ELSE IF Head(rels) \in seen THEN first_occurrences(Tail(rels), seen)
    ELSE <<Head(rels)>> \o first_occurrences(Tail(rels), seen \cup {Head(rels)})

\* Variant: the list is returned as it was built.
dedup_relations_skipped(seed, rels) == rels


dedup_relations(seed, rels) ==
    IF seed = "fwd" THEN first_occurrences(rels, {})
    ELSE Reverse(first_occurrences(rels, {}))

-----------------------------------------------------------------------------
(* The documents the model is run on.                                      *)

\* Bounds of the input families.
MaxBranches == 3
MaxTasks == 2
MaxRuns == 2

Flows(pairs) ==
    [i \in DOMAIN pairs |-> [id |-> "f" \o ToString(i), src |-> pairs[i][1], tgt |-> pairs[i][2]]]

Doc(tasks, starts, ends, gateways, others, pairs) ==
    [tasks |-> tasks, starts |-> starts, ends |-> ends, gateways |-> gateways,
     others |-> others, flows |-> Flows(pairs),
     named |-> {tasks[i] : i \in {j \in DOMAIN tasks : j % 2 = 1}}]

Gw(id, kind) == [id |-> id, kind |-> kind]

\* Start -> T1 -> ... -> Tn -> End
Linear(n) ==
    LET node(i) == IF i = 0 THEN "Start" ELSE IF i = n + 1 THEN "End" ELSE "T" \o ToString(i)
    IN Doc([i \in 1..n |-> node(i)], <<"Start">>, <<"End">>, <<>>, <<>>,
           [i \in 1..(n + 1) |-> <<node(i - 1), node(i)>>])

\* One branch of a block between the split G1 and the join G2:
\*   "direct"  G1 -> G2
\*   "task"    G1 -> Ti -> G2
\*   "two"     G1 -> Ti -> Ui -> G2
\*   "end"     G1 -> Ti -> Ei          (the branch ends in its own end event)
BranchTypes == {"direct", "task", "two", "end"}

branch_tasks(b, i) ==
    IF b = "direct" THEN <<>>
    ELSE IF b = "two" THEN <<"T" \o ToString(i), "U" \o ToString(i)>>
    ELSE <<"T" \o ToString(i)>>

branch_ends(b, i) == IF b = "end" THEN <<"E" \o ToString(i)>> ELSE <<>>

branch_flows(b, i) ==
    IF b = "direct" THEN <<<<"G1", "G2">>>>
    ELSE IF b = "task" THEN <<<<"G1", "T" \o ToString(i)>>, <<"T" \o ToString(i), "G2">>>>
    ELSE IF b = "two" THEN <<<<"G1", "T" \o ToString(i)>>,
                             <<"T" \o ToString(i), "U" \o ToString(i)>>,
                             <<"U" \o ToString(i), "G2">>>>
    ELSE <<<<"G1", "T" \o ToString(i)>>, <<"T" \o ToString(i), "E" \o ToString(i)>>>>

\* Start -> G1 -> branches -> G2 -> End
Block(k1, k2, bs) ==
    Doc(Concat([i \in DOMAIN bs |-> branch_tasks(bs[i], i)]),
        <<"Start">>,
        <<"End">> \o Concat([i \in DOMAIN bs |-> branch_ends(bs[i], i)]),
        <<Gw("G1", k1), Gw("G2", k2)>>, <<>>,
        <<<<"Start", "G1">>>> \o Concat([i \in DOMAIN bs |-> branch_flows(bs[i], i)])
        \o <<<<"G2", "End">>>>)

Blocks ==
    {Block(k1, k2, bs) : k1 \in Kinds, k2 \in Kinds,
                         bs \in UNION {[1..n -> BranchTypes] : n \in 2..MaxBranches}}

\* Start -> G2 (join) -> T1 -> G1 (split) -> {back to G2, End}
Loop(k1, k2, back) ==
    Doc(IF back = "task" THEN <<"T1", "T2">> ELSE <<"T1">>,
        <<"Start">>, <<"End">>, <<Gw("G1", k1), Gw("G2", k2)>>, <<>>,
        <<<<"Start", "G2">>, <<"G2", "T1">>, <<"T1", "G1">>>>
        \o (IF back = "task" THEN <<<<"G1", "T2">>, <<"T2", "G2">>>> ELSE <<<<"G1", "G2">>>>)
        \o <<<<"G1", "End">>>>)

Loops == {Loop(k1, k2, back) : k1 \in Kinds, k2 \in Kinds, back \in {"direct", "task"}}

\* Start -> G1 -> { G3 -> {T1, T2} -> G4, T3 } -> G2 -> End
Nested(ko, ki) ==
    Doc(<<"T1", "T2", "T3">>, <<"Start">>, <<"End">>,
        <<Gw("G1", ko), Gw("G3", ki), Gw("G4", ki), Gw("G2", ko)>>, <<>>,
        <<<<"Start", "G1">>, <<"G1", "G3">>, <<"G1", "T3">>, <<"G3", "T1">>, <<"G3", "T2">>,
          <<"T1", "G4">>, <<"T2", "G4">>, <<"G4", "G2">>, <<"T3", "G2">>, <<"G2", "End">>>>)

\* Start -> G4 (join) -> G1 -> { G3 -> {T1, T2, back to G4}, T3 } ; T1, T2, T3 -> G2 -> End
\* The inner split's branches run straight into the outer join.
Crossing(ko, ki) ==
    Doc(<<"T1", "T2", "T3">>, <<"Start">>, <<"End">>,
        <<Gw("G1", ko), Gw("G3", ki), Gw("G4", ki), Gw("G2", ko)>>, <<>>,
        <<<<"Start", "G4">>, <<"G4", "G1">>, <<"G1", "G3">>, <<"G1", "T3">>,
          <<"G3", "T1">>, <<"G3", "T2">>, <<"G3", "G4">>,
          <<"T1", "G2">>, <<"T2", "G2">>, <<"T3", "G2">>, <<"G2", "End">>>>)

\* Start -> G3 -> { G1 -> {T1, T2, T3}, G4 } ; T1, T2 -> G4 -> G2 ; T3 -> G2 -> End
\* Two branches of the inner split merge before they reach its join.
Merging(ko, ki) ==
    Doc(<<"T1", "T2", "T3">>, <<"Start">>, <<"End">>,
        <<Gw("G3", ko), Gw("G1", ki), Gw("G4", ko), Gw("G2", ki)>>, <<>>,
        <<<<"Start", "G3">>, <<"G3", "G1">>, <<"G3", "G4">>,
          <<"G1", "T1">>, <<"G1", "T2">>, <<"G1", "T3">>,
          <<"T1", "G4">>, <<"T2", "G4">>, <<"G4", "G2">>, <<"T3", "G2">>, <<"G2", "End">>>>)

\* Start -> G1 -> {T1 -> End, E2}: a split whose branches all end, no join.
Fork(k) ==
    Doc(<<"T1">>, <<"Start">>, <<"End", "E2">>, <<Gw("G1", k)>>, <<>>,
        <<<<"Start", "G1">>, <<"G1", "T1">>, <<"G1", "E2">>, <<"T1", "End">>>>)

\* The document Nested(ko, k3) with an inner join of kind k4.
Mismatched(ko, k3, k4) ==
    [Nested(ko, k3) EXCEPT !.gateways[3] = Gw("G4", k4)]

Unpaired ==
    {Fork(k) : k \in Kinds}
    \cup {Mismatched(ko, k3, k4) : ko \in Kinds, k3 \in Kinds, k4 \in Kinds}

\* Start -> G1 -> { G3 -> {G2, T1 -> G4}, T2 -> G4 } ; G4 -> G2 -> End
\* The inner split is a successor of the outer split and a predecessor of the
\* outer join at once.
Shortcut(ko, ki) ==
    Doc(<<"T1", "T2">>, <<"Start">>, <<"End">>,
        <<Gw("G1", ko), Gw("G3", ki), Gw("G4", ki), Gw("G2", ko)>>, <<>>,
        <<<<"Start", "G1">>, <<"G1", "G3">>, <<"G1", "T2">>, <<"G3", "G2">>, <<"G3", "T1">>,
          <<"T1", "G4">>, <<"T2", "G4">>, <<"G4", "G2">>, <<"G2", "End">>>>)

\* Start -> G3 -> {G4, G2} ; G4 -> T1 -> G1 -> {T2 -> G2, T3 -> G4} ; G2 -> End
\* One branch of the split G1 runs back to a join in front of G1.
Reentry(ko, ki) ==
    Doc(<<"T1", "T2", "T3">>, <<"Start">>, <<"End">>,
        <<Gw("G3", ko), Gw("G4", ko), Gw("G1", ki), Gw("G2", ki)>>, <<>>,
        <<<<"Start", "G3">>, <<"G3", "G4">>, <<"G3", "G2">>, <<"G4", "T1">>, <<"T1", "G1">>,
          <<"G1", "T2">>, <<"G1", "T3">>, <<"T2", "G2">>, <<"T3", "G4">>, <<"G2", "End">>>>)

Nestings ==
    UNION {{Nested(ko, ki), Crossing(ko, ki), Merging(ko, ki), Shortcut(ko, ki),
            Reentry(ko, ki)} : ko \in Kinds, ki \in Kinds}

\* Start -> T1 -> U -> End, where U is an element of another tag, or no element.
Foreign(present) ==
    Doc(<<"T1">>, <<"Start">>, <<"End">>, <<>>, IF present THEN <<"U">> ELSE <<>>,
        <<<<"Start", "T1">>, <<"T1", "U">>, <<"U", "End">>>>)

\* Start -> G1 -> {T1 -> End, T2 -> End} ; Start -> G2 (twice) ; G2 -> End
\* Every branch of the split ends; the join is fed by the start event alone.
Detached(k1, k2) ==
    Doc(<<"T1", "T2">>, <<"Start">>, <<"End">>, <<Gw("G1", k1), Gw("G2", k2)>>, <<>>,
        <<<<"Start", "G1">>, <<"G1", "T1">>, <<"G1", "T2">>, <<"T1", "End">>, <<"T2", "End">>,
          <<"Start", "G2">>, <<"Start", "G2">>, <<"G2", "End">>>>)

\* Defects of a well-formed document, alone and combined: no start event or a
\* second one, no end event, one flow missing.
drop_flow(d, i) ==
    IF i = 0 THEN d
    ELSE [d EXCEPT !.flows = SubSeq(@, 1, i - 1) \o SubSeq(@, i + 1, Len(@))]

with_starts(d, n) ==
    [d EXCEPT !.starts = [i \in 1..n |-> IF i = 1 THEN "Start" ELSE "Start" \o ToString(i)]]

with_ends(d, keep) == IF keep THEN d ELSE [d EXCEPT !.ends = <<>>]

Defects(d) ==
    {drop_flow(with_ends(with_starts(d, n), keep), i) :
        n \in 0..2, keep \in BOOLEAN, i \in 0..Len(d.flows)}

DefectBases ==
    {Linear(n) : n \in 0..MaxTasks}
    \cup {Block(k, k, bs) : k \in Kinds, bs \in [1..2 -> BranchTypes]}
    \cup Loops \cup Nestings

Inputs ==
    {Linear(n) : n \in 0..MaxTasks} \cup Blocks \cup Loops \cup Nestings
    \cup Unpaired
    \cup {Foreign(TRUE), Foreign(FALSE)}
    \cup {Detached(k1, k2) : k1 \in Kinds, k2 \in Kinds}
    \cup UNION {Defects(d) : d \in DefectBases}

-----------------------------------------------------------------------------
(* The pipeline of main.translate_bpmn_to_dcr as a state machine.          *)
(*   input            the ingested document                                *)
(*   seed             the hash seed of the running process                 *)
(*   pc               the pipeline's position                              *)
(*   gateway_pairs_data  the pairs the parser holds after the pairing pass  *)
(*   result           what parse_and_validate returned                     *)
(*   bpmn_process     the BPMNProcess the engine owns                      *)
(*   engine           the TranslationEngine's state                        *)
(*   preprocess_calls calls of _preprocess_bpmn_model on bpmn_process      *)
(*   dedup_calls      applications of the deduplication step               *)
(*   run, previous    the number of this run on the input, and the graph   *)
(*                    the previous run produced (events, relation set,     *)
(*                    marking)                                             *)
(*   exit_code        the exit code of the process, None while it runs     *)
(*   cause            why the process exited, None while it runs           *)

VARIABLES input, seed, pc, gateway_pairs_data, result, bpmn_process, engine,
          preprocess_calls, dedup_calls, run, previous, exit_code, cause

vars == <<input, seed, pc, gateway_pairs_data, result, bpmn_process, engine,
          preprocess_calls, dedup_calls, run, previous, exit_code, cause>>

NoResult == [has_process |-> FALSE, process |-> NoProcess, errors |-> <<>>]

NoGraph == [events |-> {}, relations |-> {}, initial_marking |-> {}]

\* The observable content of a DCR graph: event ids with labels, the relation
\* set, and the marking.
graph_content(g) ==
    [events |-> Range(g.events), relations |-> Range(g.relations),
     initial_marking |-> Range(g.initial_marking)]

\* The exit code of a process that has not exited.
Running == -1

Init ==
    /\ input \in Inputs
    /\ seed \in HashSeeds
    /\ pc = "invoked"
    /\ gateway_pairs_data = <<>>
    /\ result = NoResult
    /\ bpmn_process = NoProcess
    /\ engine = NewEngine
    /\ preprocess_calls = 0
    /\ dedup_calls = 0
    /\ run = 1
    /\ previous = NoGraph
    /\ exit_code = Running
    /\ cause = None

\* What the process leaves alone until it has a document to validate.
pipeline_unchanged ==
    UNCHANGED <<input, seed, gateway_pairs_data, result, bpmn_process, engine,
                preprocess_calls, dedup_calls, run, previous>>

\* sys.exit(code)
exit(code, why) ==
    /\ pc' = "exited"
    /\ exit_code' = code
    /\ cause' = why

\* The command-line arguments after the script name: none, an empty string,
\* or a path.
Arguments == {None, "", "model.bpmn"}

\* What os.listdir('.') gives the picker: an OSError, or 0, 1 or 2 .bpmn files.
Listings == {"OSError", "0", "1", "2"}

\* What the user types at the prompt of a picker that lists two files.
Choices == {"q", "Q", "1", "2", "3", "0", "x", "EOF"}

\* The file at the chosen path: missing, not well-formed XML, XML without a
\* process element, or a BPMN document.
Files == {"missing", "malformed", "no process", "document"}

\* main.py 116-127 with select_bpmn_file_interactively up to the prompt.
Main ==
    /\ pc = "invoked"
    /\ \E argument \in Arguments, listing \in Listings :
          IF argument # None
          THEN IF argument # ""
               THEN pc' = "selected" /\ UNCHANGED <<exit_code, cause>>
               ELSE exit(0, "empty argument")
          ELSE IF listing = "OSError" THEN exit(0, "directory unreadable")
          ELSE IF listing = "0" THEN exit(0, "no .bpmn file")
          ELSE IF listing = "1"
               THEN pc' = "selected" /\ UNCHANGED <<exit_code, cause>>
               ELSE pc' = "prompting" /\ UNCHANGED <<exit_code, cause>>
    /\ pipeline_unchanged

\* select_bpmn_file_interactively, one round of the prompt loop, and the
\* return to __main__.
Prompt ==
    /\ pc = "prompting"
    /\ \E choice \in Choices :
          IF choice \in {"q", "Q", "EOF"} THEN exit(0, "cancelled")
          ELSE IF choice \in {"1", "2"}
               THEN pc' = "selected" /\ UNCHANGED <<exit_code, cause>>
               ELSE UNCHANGED <<pc, exit_code, cause>>
    /\ pipeline_unchanged

\* translate_bpmn_to_dcr up to the constructed parser.
Open ==
    /\ pc = "selected"
    /\ \E file \in Files :
          IF file = "missing" THEN exit(1, "missing file")
          ELSE IF file = "malformed" THEN exit(1, "parse error")
          ELSE IF file = "no process" THEN exit(1, "no process element")
          ELSE pc' = "ingested" /\ UNCHANGED <<exit_code, cause>>
    /\ pipeline_unchanged

\* main.py 83-90: parse and validate; on errors the pipeline exits.
Validate ==
    /\ pc = "ingested"
    /\ result' = parse_and_validate(seed, input)
    /\ gateway_pairs_data' = pair_and_rename_gateways(seed, input, rename_events(input)).pairs
    /\ bpmn_process' = result'.process
    /\ pc' = IF result'.errors # <<>> THEN "rejected" ELSE "validated"
    /\ exit_code' = IF result'.errors # <<>> THEN 1 ELSE exit_code
    /\ cause' = IF result'.errors # <<>> THEN "validation" ELSE cause
    /\ UNCHANGED <<input, seed, engine, preprocess_calls, dedup_calls, run, previous>>

\* translate, step 1
Preprocess ==
    /\ pc = "validated"
    /\ bpmn_process' = preprocess_bpmn_model(bpmn_process)
    /\ preprocess_calls' = 1
    /\ pc' = "preprocessed"
    /\ UNCHANGED <<input, seed, gateway_pairs_data, result, engine, dedup_calls, run, previous,
                   exit_code, cause>>

\* _preprocess_bpmn_model called once more on the preprocessed model
PreprocessAgain ==
    /\ pc = "preprocessed"
    /\ preprocess_calls = 1
    /\ bpmn_process' = preprocess_bpmn_model(bpmn_process)
    /\ preprocess_calls' = 2
    /\ UNCHANGED <<input, seed, pc, gateway_pairs_data, result, engine, dedup_calls, run, previous,
                   exit_code, cause>>

\* translate, step 2
ObjectMapping ==
    /\ pc = "preprocessed"
    /\ engine' = perform_object_mapping(engine, bpmn_process)
    /\ pc' = "objects_mapped"
    /\ UNCHANGED <<input, seed, gateway_pairs_data, result, bpmn_process, preprocess_calls, dedup_calls,
                   run, previous, exit_code, cause>>

\* translate, step 3
PrepareMappings ==
    /\ pc = "objects_mapped"
    /\ engine' = prepare_dcr_mappings(engine, bpmn_process)
    /\ pc' = "prepared"
    /\ UNCHANGED <<input, seed, gateway_pairs_data, result, bpmn_process, preprocess_calls, dedup_calls,
                   run, previous, exit_code, cause>>

\* translate, step 4
RelationMapping ==
    /\ pc = "prepared"
    /\ engine' = perform_relation_mapping(engine, bpmn_process)
    /\ pc' = "relations_mapped"
    /\ UNCHANGED <<input, seed, gateway_pairs_data, result, bpmn_process, preprocess_calls, dedup_calls,
                   run, previous, exit_code, cause>>

\* translate, step 5: the graph is returned
Deduplicate ==
    /\ pc = "relations_mapped"
    /\ engine' = [engine EXCEPT !.dcr_graph.relations = dedup_relations(seed, @)]
    /\ dedup_calls' = 1
    /\ pc' = "translated"
    /\ UNCHANGED <<input, seed, gateway_pairs_data, result, bpmn_process, preprocess_calls, run, previous,
                   exit_code, cause>>

\* the deduplication step applied to the returned graph once more
DeduplicateAgain ==
    /\ pc = "translated"
    /\ dedup_calls = 1
    /\ engine' = [engine EXCEPT !.dcr_graph.relations = dedup_relations(seed, @)]
    /\ dedup_calls' = 2
    /\ UNCHANGED <<input, seed, pc, gateway_pairs_data, result, bpmn_process, preprocess_calls, run, previous,
                   exit_code, cause>>

\* The compiler is run again on the same document, in a new process.
Rerun ==
    /\ pc = "translated"
    /\ run < MaxRuns
    /\ \E s \in HashSeeds : seed' = s
    /\ previous' = graph_content(engine.dcr_graph)
    /\ run' = run + 1
    /\ pc' = "ingested"
    /\ gateway_pairs_data' = <<>>
    /\ result' = NoResult
    /\ bpmn_process' = NoProcess
    /\ engine' = NewEngine
    /\ preprocess_calls' = 0
    /\ dedup_calls' = 0
    /\ UNCHANGED <<input, exit_code, cause>>

\* translate_bpmn_to_dcr, step 3: the XML file is written, or writing fails.
Generate ==
    /\ pc = "translated"
    /\ \E written \in BOOLEAN :
          IF written THEN exit(0, "success") ELSE exit(1, "write failed")
    /\ pipeline_unchanged

Next ==
    \/ Main
    \/ Prompt
    \/ Open
    \/ Validate
    \/ Preprocess
    \/ PreprocessAgain
    \/ ObjectMapping
    \/ PrepareMappings
    \/ RelationMapping
    \/ Deduplicate
    \/ DeduplicateAgain
    \/ Rerun
    \/ Generate

Spec == Init /\ [][Next]_vars

-----------------------------------------------------------------------------
(* Properties.                                                             *)

validated == pc \in {"validated", "preprocessed", "objects_mapped", "prepared",
                    "relations_mapped", "translated"}

returned == validated \/ pc = "rejected"

objects_of(proc, element_type) ==
    {proc.objects[i] : i \in {j \in DOMAIN proc.objects :
                                 proc.objects[j].element_type = element_type}}

has_error(rule, id, what) ==
    \E i \in DOMAIN result.errors :
        /\ result.errors[i].rule = rule
        /\ result.errors[i].id = id
        /\ result.errors[i].what = what

\* C1: parse_and_validate returns either a process and no error, or no process
\* and at least one error; a DCR graph is only built in the first case.
C1_AllOrNothing ==
    /\ returned =>
          \/ result.has_process /\ result.errors = <<>> /\ result.process # NoProcess
          \/ ~result.has_process /\ result.errors # <<>> /\ result.process = NoProcess
    /\ engine.dcr_graph # EmptyGraph => result.has_process /\ result.errors = <<>>
    /\ pc = "rejected" => engine.dcr_graph = EmptyGraph

C1_Witness ==
    /\ pc = "rejected"
    /\ ~result.has_process
    /\ \E i \in DOMAIN result.errors : result.errors[i].rule = "R4"

\* The gateways that are the split or the join of a pair the parser located.
paired_gateways == split_ids([gateway_pairs |-> gateway_pairs_data])
                   \cup join_ids([gateway_pairs |-> gateway_pairs_data])

reports_R1_R2_R3 ==
    /\ Len(input.starts) # 1 => has_error("R1", "", "start events")
    /\ Len(input.ends) < 1 => has_error("R1", "", "end events")
    /\ \A t \in Range(input.tasks) :
          /\ Len(flows_by_target(input, t)) # 1 => has_error("R2", t, "incoming")
          /\ Len(flows_by_source(input, t)) # 1 => has_error("R2", t, "outgoing")
    /\ \A g \in gateway_ids(input) :
          ~is_split_shape(input, g) /\ ~is_join_shape(input, g)
              => has_error("R3", g, "structure")

\* C2: the returned error list holds an R1 error per violated start/end count, an
\* R2 error per wrong task fan-in or fan-out, an R3 error per gateway of neither
\* shape and an R4 error for every gateway that is in no pair, whatever else fails.
C2_AllRulesReported ==
    returned =>
        /\ reports_R1_R2_R3
        /\ \A g \in gateway_ids(input) \ paired_gateways : has_error("R4", g, "unpaired")

\* C3: a returned process has exactly one start event and at least one end
\* event, every Task has one incoming and one outgoing flow, and every Gateway
\* is Split-shaped or Join-shaped, never both.
C3_StructuralRules ==
    result.has_process =>
        LET proc == result.process
            split_shaped(o) == Len(o.incoming_flows) = 1 /\ Len(o.outgoing_flows) > 1
            join_shaped(o) == Len(o.incoming_flows) > 1 /\ Len(o.outgoing_flows) = 1
        IN /\ Cardinality({o \in objects_of(proc, "Event") : o.event_type = "StartEvent"}) = 1
           /\ Cardinality({o \in objects_of(proc, "Event") : o.event_type = "EndEvent"}) >= 1
           /\ \A o \in objects_of(proc, "Task") :
                 Len(o.incoming_flows) = 1 /\ Len(o.outgoing_flows) = 1
           /\ \A o \in objects_of(proc, "Gateway") : split_shaped(o) # join_shaped(o)

C3_Witness ==
    /\ result.has_process
    /\ Cardinality(objects_of(result.process, "Task")) >= 2
    /\ Cardinality(objects_of(result.process, "Gateway")) >= 2
    /\ Cardinality({o \in objects_of(result.process, "Event") : o.event_type = "EndEvent"}) >= 2

\* C4: in a returned process every gateway is in exactly one pair, there are as
\* many pairs as split gateways and as join gateways, and the two gateways of a
\* pair have the same kind.
C4_Pairing ==
    result.has_process =>
        LET proc == result.process
            pairs == proc.gateway_pairs
            gws == objects_of(proc, "Gateway")
            memberships(g) == {<<i, role>> \in (DOMAIN pairs) \X {"split", "join"} :
                                \/ role = "split" /\ pairs[i].split_gateway_id = g.id
                                \/ role = "join" /\ pairs[i].join_gateway_id = g.id}
        IN /\ \A g \in gws : Cardinality(memberships(g)) = 1
           /\ Len(pairs) = Cardinality({g \in gws : g.gateway_function = "Split"})
           /\ Len(pairs) = Cardinality({g \in gws : g.gateway_function = "Join"})
           /\ \A i \in DOMAIN pairs :
                 /\ has_id(proc.objects, pairs[i].split_gateway_id)
                 /\ has_id(proc.objects, pairs[i].join_gateway_id)
                 /\ get_id(proc.objects, pairs[i].split_gateway_id).gateway_type
                      = get_id(proc.objects, pairs[i].join_gateway_id).gateway_type
                 /\ pairs[i].gateway_type
                      = get_id(proc.objects, pairs[i].split_gateway_id).gateway_type

C4_Witness ==
    /\ result.has_process
    /\ Len(result.process.gateway_pairs) = 2
    /\ result.process.gateway_pairs[1].gateway_type # result.process.gateway_pairs[2].gateway_type

\* The graph translate returned.
translated == pc = "translated"

dcr == engine.dcr_graph

marking_of(event_id) == get_id(dcr.initial_marking, event_id).marking

state_labels(event_type) ==
    {event_type \o " State " \o ToString(n) :
        n \in 1..engine.auxiliary_event_counters[event_type]}

\* The events that stand for a BPMN object of the preprocessed model (triggers
\* included), and the auxiliary events of the two families.
object_events == {e \in Range(dcr.events) : has_id(bpmn_process.objects, e.id)}
and_state_events == {e \in Range(dcr.events) \ object_events : e.label \in state_labels("AND")}
or_state_events == {e \in Range(dcr.events) \ object_events : e.label \in state_labels("OR")}

trigger_objects ==
    {o \in Range(bpmn_process.objects) : o.id \notin all_ids(input)}

\* C5: in the returned graph the start event is marked (false, true, true), every
\* other event of a BPMN object (false, false, false), every AND-State event
\* (false, true, false) and every OR-State event (false, false, false).
C5_InitialMarking ==
    translated =>
        /\ Range(dcr.events) = object_events \cup and_state_events \cup or_state_events
        /\ \A e \in Range(dcr.events) : has_id(dcr.initial_marking, e.id)
        /\ \A e \in object_events :
              marking_of(e.id) =
                  IF get_id(bpmn_process.objects, e.id).event_type = "StartEvent"
                  THEN <<FALSE, TRUE, TRUE>> ELSE <<FALSE, FALSE, FALSE>>
        /\ \A e \in and_state_events : marking_of(e.id) = <<FALSE, TRUE, FALSE>>
        /\ \A e \in or_state_events : marking_of(e.id) = <<FALSE, FALSE, FALSE>>

C5_Witness ==
    /\ translated
    /\ and_state_events # {}
    /\ or_state_events # {}
    /\ \E o \in trigger_objects : has_id(dcr.events, o.id)

\* C6: in the returned graph every event, of a BPMN object, of a trigger or
\* auxiliary, excludes itself.
C6_SelfExclude ==
    translated =>
        \A e \in Range(dcr.events) :
            DCRRelation(e.id, e.id, "exclude") \in Range(dcr.relations)

C6_Witness ==
    /\ translated
    /\ Cardinality(and_state_events) >= 2
    /\ Cardinality(or_state_events) >= 2
    /\ trigger_objects # {}

has_duplicates(rels) == \E i, j \in DOMAIN rels : i # j /\ rels[i] = rels[j]

\* The relation list as the mapping step leaves it for bpmn_process.
mapped_relations ==
    perform_relation_mapping(
        prepare_dcr_mappings(perform_object_mapping(NewEngine, bpmn_process), bpmn_process),
        bpmn_process).dcr_graph.relations

\* C7: the returned relation list holds no relation twice, and applying the
\* deduplication step once more changes neither the relation set nor the
\* number of entries.
C7_NoDuplicates ==
    /\ [](translated => ~has_duplicates(dcr.relations))
    /\ [][dedup_calls = 1 /\ dedup_calls' = 2 =>
              /\ Range(engine'.dcr_graph.relations) = Range(engine.dcr_graph.relations)
              /\ Len(engine'.dcr_graph.relations) = Len(engine.dcr_graph.relations)]_vars

\* The mapping step had emitted duplicates, and the step was applied twice.
C7_Witness ==
    /\ translated
    /\ dedup_calls = 2
    /\ has_duplicates(mapped_relations)
    /\ Len(dcr.relations) < Len(mapped_relations)

\* C8: a second run of the compiler on the same document returns the same
\* events, the same relation set and the same marking as the first.
C8_Determinism ==
    translated /\ run = 2 => graph_content(dcr) = previous

inclusive_pairs == {p \in Range(bpmn_process.gateway_pairs) : p.gateway_type = Inclusive}

\* The immediate successors of a node in the document.
successors(n) == {f.tgt : f \in Range(flows_by_source(input, n))}

trigger_ids == {o.id : o \in trigger_objects}

\* The nodes a walk from c can stand on when it never enters the nodes of avoid.
RECURSIVE walk(_, _)
walk(S, avoid) ==
    LET more == (UNION {successors(n) : n \in S}) \ (S \cup avoid)
    IN IF more = {} THEN S ELSE walk(S \cup more, avoid)

\* The successors of the split, other than the join, from which a predecessor
\* of the join is reached without passing through the split or the join.
joining_successors(p) ==
    {c \in successors(p.split_gateway_id) \ {p.join_gateway_id} :
        \E n \in walk({c}, {p.split_gateway_id, p.join_gateway_id}) :
            p.join_gateway_id \in successors(n)}

trace_starts_are_successors(p) ==
    \A i \in DOMAIN p.inclusive_traces :
        \/ p.inclusive_traces[i].start_object_id \in successors(p.split_gateway_id)
        \/ preprocess_calls > 0 /\ p.inclusive_traces[i].start_object_id \in trigger_ids

\* C9 as stated: every inclusive pair of a validated process has at least as many
\* traces as its split has immediate successors, and every trace starts at such
\* a successor or, after preprocessing, at a trigger.
C9_TracesPerSuccessor ==
    validated =>
        \A p \in inclusive_pairs :
            /\ Len(p.inclusive_traces) >= Cardinality(successors(p.split_gateway_id))
            /\ trace_starts_are_successors(p)

\* C9 amended: every inclusive pair of a validated process has at least as many
\* traces as its split has immediate successors, other than the join, from which
\* a predecessor of the join is reached without passing through the split or the
\* join; every trace starts at a successor of the split or, after preprocessing,
\* at a trigger.
C9_TracesPerJoiningSuccessor ==
    validated =>
        \A p \in inclusive_pairs :
            /\ Len(p.inclusive_traces) >= Cardinality(joining_successors(p))
            /\ trace_starts_are_successors(p)

\* An inclusive pair with a branch that never reaches the join, and a trigger.
C9_Witness ==
    /\ pc = "preprocessed"
    /\ \E p \in inclusive_pairs :
          /\ Cardinality(joining_successors(p)) >= 2
          /\ Cardinality(joining_successors(p)) < Cardinality(successors(p.split_gateway_id))
          /\ \E i \in DOMAIN p.inclusive_traces :
                p.inclusive_traces[i].start_object_id \in trigger_ids

\* C10: a second call of the preprocessing on the preprocessed model leaves the
\* objects, the sequence flows and the traces as they are.
C10_PreprocessFixedPoint ==
    [][preprocess_calls = 1 /\ preprocess_calls' = 2 => bpmn_process' = bpmn_process]_vars

\* The first call inserted triggers, and the second call has been made.
C10_Witness ==
    /\ preprocess_calls = 2
    /\ Cardinality(trigger_objects) >= 2

\* C11: once the preprocessing has run on a validated process, every trace of
\* every inclusive pair starts at an object other than the one it ends at.
C11_StartDiffersFromEnd ==
    preprocess_calls > 0 =>
        \A p \in inclusive_pairs :
            \A i \in DOMAIN p.inclusive_traces :
                p.inclusive_traces[i].start_object_id # p.inclusive_traces[i].end_object_id

\* Scenario S5: Start -> G1 -> {T1, T2} -> G2 -> End, G1 and G2 inclusive.
S5 == Block(Inclusive, Inclusive, <<"task", "task">>)

relations == Range(dcr.relations)

\* The trigger the preprocessing put in front of a task: the source of the
\* task's incoming flow in the preprocessed model.
triggers_of(task_id) ==
    {f.src : f \in {g \in Range(bpmn_process.sequence_flows) : g.tgt = task_id}} \cap trigger_ids

\* The OR-State wiring of one branch task of S5 with its trigger.
S5_branch_wiring(task_id, trigger) ==
    \E aux \in or_state_events :
        /\ DCRRelation(task_id, aux.id, "exclude") \in relations
        /\ DCRRelation(aux.id, "G2", "condition") \in relations
        /\ DCRRelation(task_id, "G2", "include") \in relations
        /\ DCRRelation(trigger, aux.id, "include") \in relations

\* C12 as stated: for S5 the returned relations hold (G1, G2, response), the
\* join's exclusion of T1 and of T2, and for each branch task the wiring of its
\* OR-State event with its trigger.
C12_ScenarioS5 ==
    translated /\ input = S5 =>
        /\ DCRRelation("G1", "G2", "response") \in relations
        /\ \A t \in {"T1", "T2"} :
              /\ DCRRelation("G2", t, "exclude") \in relations
              /\ \E trigger \in triggers_of(t) : S5_branch_wiring(t, trigger)

\* C12 amended: for S5 the returned relations hold (G1, G2, response), and for
\* each branch task the join's exclusion of the task's trigger (the split's
\* target after preprocessing) and the wiring of the task's OR-State event with
\* that trigger; the join excludes neither T1 nor T2.
C12_ScenarioS5_Triggers ==
    translated /\ input = S5 =>
        /\ DCRRelation("G1", "G2", "response") \in relations
        /\ \A t \in {"T1", "T2"} :
              /\ DCRRelation("G2", t, "exclude") \notin relations
              /\ \E trigger \in triggers_of(t) :
                    /\ DCRRelation("G2", trigger, "exclude") \in relations
                    /\ S5_branch_wiring(t, trigger)

C12_Witness ==
    /\ translated
    /\ input = S5
    /\ Cardinality(trigger_ids) = 2
    /\ Cardinality(or_state_events) = 2

\* The document satisfies R1, R2 and R3.
satisfies_R1_R2_R3 ==
    /\ Len(input.starts) = 1
    /\ Len(input.ends) >= 1
    /\ \A t \in Range(input.tasks) :
          Len(flows_by_target(input, t)) = 1 /\ Len(flows_by_source(input, t)) = 1
    /\ \A g \in gateway_ids(input) : is_split_shape(input, g) # is_join_shape(input, g)

\* The split gateways from which no join gateway of the same kind is reachable.
splits_without_join ==
    {g \in gateway_ids(input) :
        /\ is_split_shape(input, g)
        /\ ~\E j \in walk(successors(g), {}) \cap gateway_ids(input) :
              is_join_shape(input, j) /\ gateway_kind(input, j) = gateway_kind(input, g)}

S6 == satisfies_R1_R2_R3 /\ splits_without_join # {}

\* C13 as stated: in scenario S6 parse_and_validate returns no process and an
\* error list of exactly one error, a Rule 4 error.
C13_SingleR4Error ==
    returned /\ S6 =>
        /\ ~result.has_process
        /\ Len(result.errors) = 1
        /\ result.errors[1].rule = "R4"

\* C13 read per gateway: in scenario S6 parse_and_validate returns no process
\* and an error list of Rule 4 errors only, exactly one for each gateway that is
\* in no pair; every split without a reachable join of its kind is among them.
\* Detached(k, k) refutes this reading too: its split is paired with a join that
\* no branch reaches, and the document is accepted.
C13_R4ErrorPerUnpairedGateway ==
    returned /\ S6 =>
        /\ ~result.has_process
        /\ \A i \in DOMAIN result.errors : result.errors[i].rule = "R4"
        /\ \A g \in gateway_ids(input) \ paired_gateways :
              Cardinality({i \in DOMAIN result.errors : result.errors[i].id = g}) = 1
        /\ Len(result.errors) = Cardinality(gateway_ids(input) \ paired_gateways)
        /\ splits_without_join \subseteq gateway_ids(input) \ paired_gateways

\* A split and a join of another kind: two gateways are in no pair.
C13_Witness ==
    /\ returned
    /\ S6
    /\ Len(result.errors) >= 2
    /\ paired_gateways # {}

exited == exit_code # Running

\* C14: the process exits with code 0 when the translation succeeded, with code
\* 1 on a validation failure or an I/O failure (input file missing, parse error,
\* working directory unreadable or without a .bpmn file, output not written),
\* and with code 0 without a translation only when the user cancelled the picker.
C14_ExitCodes ==
    exited =>
        /\ cause = "success" => exit_code = 0
        /\ cause \in {"validation", "missing file", "parse error", "no process element",
                      "directory unreadable", "no .bpmn file", "write failed"}
              => exit_code = 1
        /\ exit_code = 0 /\ cause # "success" => cause = "cancelled"

\* The ids of the document's tasks, start and end events and gateways.
recognized_ids ==
    Range(input.tasks) \cup Range(input.starts) \cup Range(input.ends) \cup gateway_ids(input)

unknown_flows ==
    {f \in Range(input.flows) : f.src \notin recognized_ids \/ f.tgt \notin recognized_ids}

\* C15: for a document with a sequence flow whose source or target is not a
\* task, start or end event or gateway, the pipeline stops before translation
\* and no DCR graph is built.
C15_UnknownObjectIsFatal ==
    unknown_flows # {} =>
        /\ ~validated
        /\ engine.dcr_graph = EmptyGraph
        /\ cause # "success"

\* The children of a split from which node n is reached on a path that does
\* not pass through the split again.
origins(split_id, n) ==
    {c \in successors(split_id) : n \in walk({c}, {split_id})}

\* The children of a split from which an end event is reached on such a path.
terminating_children(split_id) ==
    {c \in successors(split_id) : walk({c}, {split_id}) \cap Range(input.ends) # {}}

\* C16: the join that find_join returned for a split is covered: every child of
\* the split reaches the join, or an end event, on a path that does not re-enter
\* the split.
C16_JoinCoveredWithoutReentry ==
    \A p \in Range(gateway_pairs_data) :
        origins(p.split_gateway_id, p.join_gateway_id)
            \cup terminating_children(p.split_gateway_id)
        = successors(p.split_gateway_id)

\* The acyclic paths of the document from node n to an end event that avoid
\* the nodes of seen, each as the sequence of its nodes.
RECURSIVE acyclic_paths(_, _)
acyclic_paths(n, seen) ==
    (IF n \in Range(input.ends) THEN {<<n>>} ELSE {})
    \cup UNION {{<<n>> \o rest : rest \in acyclic_paths(m, seen \cup {n})} :
                   m \in successors(n) \ (seen \cup {n})}

position(path, n) == CHOOSE i \in DOMAIN path : path[i] = n

\* Some acyclic path from the start event to an end event holds both gateways
\* of the pair, and in each such path the join comes before the split.
join_always_first(p) ==
    LET both == {path \in acyclic_paths(input.starts[1], {}) :
                    {p.split_gateway_id, p.join_gateway_id} \subseteq Range(path)}
    IN /\ both # {}
       /\ \A path \in both :
             position(path, p.join_gateway_id) < position(path, p.split_gateway_id)

\* C17: a pair of a returned process is a loop exactly when it is exclusive
\* and, over the acyclic paths from the start event to an end event, some path
\* holds both gateways and the join comes first in every path that does; pairs
\* of the other kinds are never loops.
C17_LoopClassification ==
    result.has_process =>
        \A p \in Range(result.process.gateway_pairs) :
            /\ p.is_loop <=> (p.gateway_type = Exclusive /\ join_always_first(p))
            /\ p.gateway_type \in {Parallel, Inclusive} => ~p.is_loop

\* An exclusive loop next to an exclusive pair that is no loop.
C17_Witness ==
    /\ result.has_process
    /\ \E p, q \in Range(result.process.gateway_pairs) :
          /\ p.is_loop /\ join_always_first(p)
          /\ q.gateway_type = Exclusive /\ ~q.is_loop /\ ~join_always_first(q)

pairs_of_kind(kind) == {p \in Range(bpmn_process.gateway_pairs) : p.gateway_type = kind}

\* The sequence flows of the translated model that run into the join of a pair
\* of the given kind.
flows_into_joins(kind) ==
    {f \in Range(bpmn_process.sequence_flows) :
        \E p \in pairs_of_kind(kind) : f.tgt = p.join_gateway_id}

\* Event a is wired as the AND-State of the flow f.
and_state_of(a, f) ==
    /\ DCRRelation(f.src, a.id, "exclude") \in relations
    /\ DCRRelation(a.id, f.tgt, "condition") \in relations
    /\ DCRRelation(f.src, f.tgt, "include") \in relations

\* C18: every flow into the join of a parallel pair has an AND-State event of
\* its own, wired with (source, a, exclude), (a, join, condition) and (source,
\* join, include); there are as many AND-State events as such flows; every
\* parallel split has a response relation to its join.
C18_AndStatePerIncomingFlow ==
    translated =>
        /\ \A f \in flows_into_joins(Parallel) : \E a \in and_state_events : and_state_of(a, f)
        /\ \A a \in and_state_events :
              Cardinality({f \in flows_into_joins(Parallel) : and_state_of(a, f)}) = 1
        /\ Cardinality(and_state_events) = Cardinality(flows_into_joins(Parallel))
        /\ \A p \in pairs_of_kind(Parallel) :
              DCRRelation(p.split_gateway_id, p.join_gateway_id, "response") \in relations

\* The traces of the inclusive pairs, each with its pair.
inclusive_trace_set ==
    {<<p, t>> : p \in inclusive_pairs, t \in UNION {Range(q.inclusive_traces) : q \in inclusive_pairs}}
    \cap UNION {{<<p, t>> : t \in Range(p.inclusive_traces)} : p \in inclusive_pairs}

\* The flow from the end of a trace into the join of its pair.
key_flows(p, t) ==
    {f \in Range(bpmn_process.sequence_flows) :
        f.src = t.end_object_id /\ f.tgt = p.join_gateway_id}

\* Event a is wired as the OR-State of trace t of pair p.
or_state_of(a, p, t) ==
    /\ DCRRelation(a.id, p.join_gateway_id, "condition") \in relations
    /\ DCRRelation(t.start_object_id, a.id, "include") \in relations
    /\ DCRRelation(t.end_object_id, a.id, "exclude") \in relations

\* C19: every trace of every inclusive pair has an OR-State event of its own;
\* or_join_flow_map holds one entry per trace, under the flow from the trace's
\* end into the join, and no two traces share that flow; every OR-State event is
\* wired to the join and to the start and the end of a trace.
C19_OrStatePerTrace ==
    translated =>
        /\ Cardinality(or_state_events) = Cardinality(inclusive_trace_set)
        /\ Len(engine.or_join_flow_map) = Cardinality(inclusive_trace_set)
        /\ \A x, y \in inclusive_trace_set :
              x # y => key_flows(x[1], x[2]) \cap key_flows(y[1], y[2]) = {}
        /\ \A x \in inclusive_trace_set :
              \E f \in key_flows(x[1], x[2]) :
                  /\ has_id(engine.or_join_flow_map, f.id)
                  /\ get_id(engine.or_join_flow_map, f.id).trace_start_id = x[2].start_object_id
        /\ \A a \in or_state_events : \E x \in inclusive_trace_set : or_state_of(a, x[1], x[2])

\* The relations the loop body of the relation mapping appends for flow f.
emitted(f) ==
    LET before == engine.dcr_graph.relations
        after == map_flow(engine, bpmn_process, f).dcr_graph.relations
    IN {after[i] : i \in (Len(before) + 1)..Len(after)}

basic(u, v) == {DCRRelation(u, v, "response"), DCRRelation(u, v, "include")}

targets_of(u) == {f.tgt : f \in {g \in Range(bpmn_process.sequence_flows) : g.src = u}}

exclusive_splits_wired ==
    \A p \in pairs_of_kind(Exclusive) :
        LET u == p.split_gateway_id IN
        /\ \A v \in targets_of(u) : basic(u, v) \subseteq relations
        /\ \A v, w \in targets_of(u) :
              v # w => /\ DCRRelation(v, w, "exclude") \in relations
                       /\ DCRRelation(w, v, "exclude") \in relations

number_in_kind(pairs, i) ==
    Cardinality({j \in 1..i : pairs[j].gateway_type = pairs[i].gateway_type})

number_in_loops(pairs, i) == Cardinality({j \in 1..i : pairs[j].is_loop})

canonical_name(pairs, i, role) ==
    pairs[i].gateway_type \o " " \o ToString(number_in_kind(pairs, i)) \o " -- " \o role
    \o (IF pairs[i].is_loop
        THEN " (Loop " \o ToString(number_in_loops(pairs, i)) \o " "
             \o (IF role = "Split" THEN "Out" ELSE "In") \o ")"
        ELSE "")

name_of(proc, id) == get_id(proc.objects, id).system_name

\* C21: in a returned process the pairs carry the ids 1..n in the order of
\* their discovery; the split and the join of a pair are named with the pair's
\* number among the pairs of its kind, loop pairs in addition with their number
\* among the loop pairs; no two gateways have the same name.
C21_CanonicalNames ==
    result.has_process =>
        LET proc == result.process
            pairs == proc.gateway_pairs
        IN /\ \A i \in DOMAIN pairs :
                 /\ pairs[i].pair_id = i
                 /\ name_of(proc, pairs[i].split_gateway_id) = canonical_name(pairs, i, "Split")
                 /\ name_of(proc, pairs[i].join_gateway_id) = canonical_name(pairs, i, "Join")
           /\ \A g, h \in objects_of(proc, "Gateway") :
                 g.id # h.id => g.system_name # h.system_name

\* Two pairs of one kind, the second discovered a loop, next to each other.
C21_Witness ==
    /\ result.has_process
    /\ \E i, j \in DOMAIN result.process.gateway_pairs :
          /\ i < j
          /\ result.process.gateway_pairs[i].gateway_type = result.process.gateway_pairs[j].gateway_type
          /\ result.process.gateway_pairs[i].is_loop # result.process.gateway_pairs[j].is_loop

\* C22 as stated: in a validated process a pair has a non-empty list of
\* inclusive traces exactly when its kind is Inclusive.
C22_TracesIffInclusive ==
    validated =>
        \A p \in Range(bpmn_process.gateway_pairs) :
            p.inclusive_traces # <<>> <=> p.gateway_type = Inclusive

\* The immediate successors of the split from which a walk that enters neither
\* the split nor the join stands on a predecessor of the join.
tracing_successors(p) ==
    {c \in successors(p.split_gateway_id) :
        \E n \in walk({c}, {p.split_gateway_id, p.join_gateway_id}) :
            p.join_gateway_id \in successors(n)}

\* C22 amended: in a validated process a pair has a non-empty list of
\* inclusive traces exactly when its kind is Inclusive and, from some immediate
\* successor of its split, a walk that enters neither the split nor the join
\* reaches a predecessor of the join.
C22_TracesIffInclusiveAndJoining ==
    validated =>
        \A p \in Range(bpmn_process.gateway_pairs) :
            p.inclusive_traces # <<>>
                <=> (p.gateway_type = Inclusive /\ tracing_successors(p) # {})

\* An inclusive pair with traces next to a pair of another kind whose split has
\* successors that reach the join.
C22_Witness ==
    /\ validated
    /\ \E p, q \in Range(bpmn_process.gateway_pairs) :
          /\ p.gateway_type = Inclusive /\ Len(p.inclusive_traces) >= 2
          /\ q.gateway_type # Inclusive /\ q.inclusive_traces = <<>>
          /\ tracing_successors(q) # {}

-----------------------------------------------------------------------------
(* C23: the pairing pass terminates.                                       *)

\* The pairing pass of the document read, with its history.
pairing_pass == pair_and_rename_gateways(seed, input, rename_events(input))

no_duplicates(s) == \A i, j \in DOMAIN s : s[i] = s[j] => i = j

\* The entries the traversal loop of a call appended to the queue, after the
\* initial entries (one per outgoing flow of the split).
appended(call) ==
    SubSeq(call.enqueued, Len(graph(input, call.split_id)) + 1, Len(call.enqueued))

initial_entries(call) ==
    {<<c, c>> : c \in successors(call.split_id)}

outer_loop_visits_once ==
    /\ no_duplicates(pairing_pass.dequeued)
    /\ Range(pairing_pass.dequeued) \subseteq all_ids(input)
    /\ no_duplicates([k \in DOMAIN pairing_pass.calls |-> pairing_pass.calls[k].split_id])

within_depth_bound(call) == call.depth <= elements_count(input)

\* C23 as stated: whenever the parser has returned, the outer pairing loop has
\* taken each object from its queue at most once, and every find_join call has
\* finished within the depth bound having enqueued each (node, origin child)
\* combination at most once.
C23_PairingTerminates ==
    returned =>
        /\ outer_loop_visits_once
        /\ \A k \in DOMAIN pairing_pass.calls :
              /\ within_depth_bound(pairing_pass.calls[k])
              /\ no_duplicates(pairing_pass.calls[k].enqueued)

\* C23 amended: whenever the parser has returned, the outer pairing loop has
\* taken each object from its queue at most once, and every find_join call has
\* finished within the depth bound; its queue started with one entry per
\* outgoing flow of the split (so a successor reached by two flows is entered
\* twice) and the traversal loop then appended each (node, origin child)
\* combination at most once and never one of the initial entries.
C23_PairingTerminatesPerFlow ==
    returned =>
        /\ outer_loop_visits_once
        /\ \A k \in DOMAIN pairing_pass.calls :
              LET call == pairing_pass.calls[k] IN
              /\ within_depth_bound(call)
              /\ Len(call.enqueued) >= Len(graph(input, call.split_id))
              /\ no_duplicates(appended(call))
              /\ Range(appended(call)) \cap initial_entries(call) = {}
              /\ Range(call.enqueued) \subseteq all_ids(input) \X successors(call.split_id)

\* A pairing pass over a cyclic graph: a call that found a join after its
\* traversal entered a node lying on a cycle, next to a call that found none.
C23_Witness ==
    /\ returned
    /\ \E k \in DOMAIN pairing_pass.calls :
          LET call == pairing_pass.calls[k] IN
          /\ call.found # None
          /\ \E i \in DOMAIN appended(call) :
                appended(call)[i][1] \in walk(successors(appended(call)[i][1]), {})
    /\ \E k \in DOMAIN pairing_pass.calls : pairing_pass.calls[k].found = None
    /\ Len(pairing_pass.dequeued) > 3

-----------------------------------------------------------------------------
(* C24: referential integrity of the returned DCR graph.                   *)

keys(d) == {d[i].id : i \in DOMAIN d}

same_keys_and_labels ==
    /\ keys(dcr.events) = keys(dcr.initial_marking)
    /\ keys(dcr.events) = keys(dcr.labelling_function)
    /\ \A e \in Range(dcr.events) :
          \A l \in Range(dcr.labelling_function) : l.id = e.id => l.label = e.label

dangling_relations ==
    {r \in relations : r.source_id \notin keys(dcr.events) \/ r.target_id \notin keys(dcr.events)}

\* C24: in the DCR graph that translate returned for an accepted process, the
\* source and the target of every relation are events of the graph, and events,
\* initial_marking and labelling_function have the same keys, the label recorded
\* for an event being the event's label.
C24_ReferentialIntegrity ==
    pc = "translated" => dangling_relations = {} /\ same_keys_and_labels

\* The part of C24 about the three maps of the graph, at every step of the
\* translation.
C24_SameKeysAndLabels == same_keys_and_labels

-----------------------------------------------------------------------------
(* C25: preprocessing keeps the BPMN model consistent.                     *)

\* The lists of every object agree with sequence_flows, and list flows only.
flows_consistent(proc) ==
    \A o \in Range(proc.objects) :
        /\ \A f \in Range(proc.sequence_flows) :
              /\ f.id \in Range(o.incoming_flows) <=> f.tgt = o.id
              /\ f.id \in Range(o.outgoing_flows) <=> f.src = o.id
        /\ Range(o.incoming_flows) \cup Range(o.outgoing_flows) \subseteq keys(proc.sequence_flows)

tasks_one_in_one_out(proc) ==
    \A o \in Range(proc.objects) :
        o.element_type = "Task" => Len(o.incoming_flows) = 1 /\ Len(o.outgoing_flows) = 1

\* The single-task inclusive branches of the process the parser returned, as
\* <<pair number, trace number>>.
single_task_branches ==
    UNION {{<<p, t>> : t \in {u \in DOMAIN result.process.gateway_pairs[p].inclusive_traces :
                LET trace == result.process.gateway_pairs[p].inclusive_traces[u]
                IN /\ result.process.gateway_pairs[p].gateway_type = Inclusive
                   /\ trace.start_object_id = trace.end_object_id
                   /\ trace.start_object_id \in Range(input.tasks)}} :
           p \in DOMAIN result.process.gateway_pairs}

branch_task(x) == result.process.gateway_pairs[x[1]].inclusive_traces[x[2]].start_object_id

redirected_flows ==
    {f \in Range(result.process.sequence_flows) :
        \E x \in single_task_branches :
            /\ f.src = result.process.gateway_pairs[x[1]].split_gateway_id
            /\ f.tgt = branch_task(x)}

\* What the preprocessing left alone: every object that is not the task of a
\* single-task branch, every flow that does not enter such a task from its
\* split, every trace that is not such a branch, and the pairs otherwise; what
\* it added is one task and one flow per single-task branch.
rest_unchanged ==
    /\ \A o \in Range(result.process.objects) :
          o.id \notin {branch_task(x) : x \in single_task_branches}
              => o \in Range(bpmn_process.objects)
    /\ \A f \in Range(result.process.sequence_flows) :
          f \notin redirected_flows => f \in Range(bpmn_process.sequence_flows)
    /\ Len(bpmn_process.gateway_pairs) = Len(result.process.gateway_pairs)
    /\ \A p \in DOMAIN result.process.gateway_pairs :
          LET before == result.process.gateway_pairs[p]
              after == bpmn_process.gateway_pairs[p]
          IN /\ [after EXCEPT !.inclusive_traces = <<>>] = [before EXCEPT !.inclusive_traces = <<>>]
             /\ Len(after.inclusive_traces) = Len(before.inclusive_traces)
             /\ \A t \in DOMAIN before.inclusive_traces :
                   <<p, t>> \notin single_task_branches
                       => after.inclusive_traces[t] = before.inclusive_traces[t]
    /\ Len(bpmn_process.objects) = Len(result.process.objects) + Cardinality(single_task_branches)
    /\ Len(bpmn_process.sequence_flows)
          = Len(result.process.sequence_flows) + Cardinality(single_task_branches)

\* C25: once _preprocess_bpmn_model has run, the incoming and outgoing lists of
\* every object agree with sequence_flows, every task (triggers included) has
\* exactly one incoming and one outgoing flow, and the objects, flows and traces
\* outside the single-task inclusive branches are as the parser returned them.
C25_PreprocessingKeepsModelConsistent ==
    preprocess_calls > 0 =>
        /\ flows_consistent(bpmn_process)
        /\ tasks_one_in_one_out(bpmn_process)
        /\ rest_unchanged

\* A preprocessed process with a trigger in front of a single-task branch,
\* next to an inclusive branch of two tasks that got none.
C25_Witness ==
    /\ preprocess_calls > 0
    /\ single_task_branches # {}
    /\ trigger_ids # {}
    /\ \E p \in inclusive_pairs : \E t \in DOMAIN p.inclusive_traces :
          /\ p.inclusive_traces[t].start_object_id # p.inclusive_traces[t].end_object_id
          /\ p.inclusive_traces[t].start_object_id \in Range(input.tasks)

-----------------------------------------------------------------------------
(* C26: the join of a pair is reachable from the split's successors.       *)

\* Whether the join lies on a path from an immediate successor of the split.
join_reachable(p) ==
    \E c \in successors(p.split_gateway_id) : p.join_gateway_id \in walk({c}, {})

\* Whether the traversal of the call ever entered the candidate it returned.
visited_what_it_found(call) ==
    call.found # None => \E i \in DOMAIN call.enqueued : call.enqueued[i][1] = call.found

\* C26: whenever the parser has returned, the join of every pair the pairing
\* pass produced is reachable from at least one immediate successor of the
\* pair's split, and no find_join call returned a candidate that its traversal
\* from the split's children never visited.
C26_JoinReachableFromSplit ==
    returned =>
        /\ \A i \in DOMAIN gateway_pairs_data : join_reachable(gateway_pairs_data[i])
        /\ \A k \in DOMAIN pairing_pass.calls : visited_what_it_found(pairing_pass.calls[k])

\* The same for the processes the parser accepted.
C26_JoinReachableFromSplit_Accepted ==
    validated =>
        /\ \A i \in DOMAIN gateway_pairs_data : join_reachable(gateway_pairs_data[i])
        /\ \A k \in DOMAIN pairing_pass.calls : visited_what_it_found(pairing_pass.calls[k])

====
